---- MODULE Spec2Model ----
(***************************************************************************)
(* yggit: stacked-commit workflow manager.                                 *)
(*                                                                         *)
(* The model covers the push negotiation of the two git clients of the     *)
(* repository (Git::push of src/src/git/git.rs and Git::custom_push of     *)
(* crates/yggit-git) and the push command of crates/yggit-core that drives *)
(* them.  Commits are the numbers 1..MaxOid, 0 is git2::Oid::zero(), and   *)
(* the commit graph is the tree in which the parent of c is c \div 2.      *)
(***************************************************************************)
EXTENDS Integers, Sequences, FiniteSets, TLC

\* ------------------------------------------------------------------ bounds
MaxOid == 3
MaxPlan == 2

\* --------------------------------------------------------------- constants
NullOid == 0

Oids == 1..MaxOid
OidOrNull == 0..MaxOid
Branches == {"main", "feat"}
Impls == {"git_rs", "yggit_git"}
Modes == {"Normal", "Force", "ForceWithLease"}

\* ------------------------------------------------------------ commit graph
Parent(c) == c \div 2

RECURSIVE graph_descendant_or_self(_, _)
graph_descendant_or_self(commit, ancestor) ==
    IF commit = ancestor THEN TRUE
    ELSE IF commit <= 1 THEN FALSE
    ELSE graph_descendant_or_self(Parent(commit), ancestor)

\* merge_base(loid, roid) = roid and loid # roid
StrictFastForward(loid, roid) ==
    loid # roid /\ graph_descendant_or_self(loid, roid)

\* ---------------------------------------------------------------- state
VARIABLES
    localRef,    \* refs/heads/<b> of the local repository, NullOid when absent
    trackRef,    \* refs/remotes/origin/<b>, NullOid when absent
    remoteRef,   \* refs/heads/<b> of the remote, NullOid when absent
    db,          \* the "branch" record stored in the note of each commit
    call,        \* the push call in progress (Git::push / Git::custom_push)
    run,         \* the push command in progress (yggit-core push)
    todo,        \* the plan text being rendered, edited and parsed
    notes,       \* the git note of each commit: its blob, a sequence of lines
    store_op,    \* the operation in progress on the notes and what it returned
    head,        \* the branch that is checked out (HEAD of the clone)
    config,      \* the git configuration and what loading it gave
    listing      \* the history HEAD is on, its main branches, and what was listed

pushVars == <<localRef, trackRef, remoteRef, db, call, run, head, config, listing>>
vars == <<localRef, trackRef, remoteRef, db, call, run, todo, notes, store_op, head,
          config, listing>>

\* ------------------------------------------------- negotiation statuses
\* src/src/git/git.rs PushStatus / PushError, crates/yggit-git NegotiationResult
AcceptedNew == {"NewBranchPushed", "AllowedToPushNewBranch"}
AcceptedUpdate == {"Pushed", "AllowedToPush"}
Accepted == AcceptedNew \cup AcceptedUpdate
RejectedDiverged == {"RemoteOriginDiverged", "RemoteDiverged"}
RejectedNoUpdate == {"NoUpdate", "NoPushNeeded"}
RejectedUnimplemented == {"NotYetImplemented"}
Rejected == RejectedDiverged \cup RejectedNoUpdate \cup RejectedUnimplemented

\* (mutant) the lease is taken for current without comparing the two positions
lease_status_ignore_divergence(pushed, diverged, src, track) ==
    IF track = NullOid THEN [status |-> "None", ok |-> FALSE]
    ELSE [status |-> pushed, ok |-> TRUE]

\* The lease comparison of both clients: the tracking reference is looked up,
\* a missing one leaves the cell unwritten and fails the callback.
lease_status(pushed, diverged, src, track) ==
    IF track = NullOid THEN [status |-> "None", ok |-> FALSE]
    ELSE IF src = track THEN [status |-> pushed, ok |-> TRUE]
    ELSE [status |-> diverged, ok |-> FALSE]

\* (mutant) the Normal arm records its refusal and forgets to return the error
Git_push_negotiation_normal_returns_ok(mode, hasUpdate, src, track) ==
    IF ~hasUpdate THEN [status |-> "NoUpdate", ok |-> FALSE]
    ELSE IF src = NullOid THEN [status |-> "NewBranchPushed", ok |-> TRUE]
    ELSE CASE mode = "Normal" -> [status |-> "NotYetImplemented", ok |-> TRUE]
           [] mode = "Force" -> [status |-> "Pushed", ok |-> TRUE]
           [] mode = "ForceWithLease" ->
                IF track = NullOid THEN [status |-> "None", ok |-> FALSE]
                ELSE IF src = track THEN [status |-> "Pushed", ok |-> TRUE]
                ELSE [status |-> "RemoteOriginDiverged", ok |-> FALSE]

\* Git::push, the push_negotiation closure (src/src/git/git.rs)
Git_push_negotiation(mode, hasUpdate, src, track) ==
    IF ~hasUpdate THEN [status |-> "NoUpdate", ok |-> FALSE]
    ELSE IF src = NullOid THEN [status |-> "NewBranchPushed", ok |-> TRUE]
    ELSE CASE mode = "Normal" -> [status |-> "NotYetImplemented", ok |-> FALSE]
           [] mode = "Force" -> [status |-> "Pushed", ok |-> TRUE]
           [] mode = "ForceWithLease" ->
                lease_status("Pushed", "RemoteOriginDiverged", src, track)

\* (mutant) the test of the null source is dropped from the closures
custom_push_negotiation_no_null_check(mode, hasUpdate, src, track) ==
    IF ~hasUpdate THEN [status |-> "NoPushNeeded", ok |-> FALSE]
    ELSE IF mode \in {"Normal", "Force"} THEN [status |-> "AllowedToPush", ok |-> TRUE]
    ELSE IF track = NullOid THEN [status |-> "None", ok |-> FALSE]
    ELSE IF src = track THEN [status |-> "AllowedToPush", ok |-> TRUE]
    ELSE [status |-> "RemoteDiverged", ok |-> FALSE]

\* Git::custom_push, the two push_negotiation closures (crates/yggit-git)
custom_push_negotiation(mode, hasUpdate, src, track) ==
    IF ~hasUpdate THEN [status |-> "NoPushNeeded", ok |-> FALSE]
    ELSE IF src = NullOid THEN [status |-> "AllowedToPushNewBranch", ok |-> TRUE]
    ELSE IF mode \in {"Normal", "Force"} THEN [status |-> "AllowedToPush", ok |-> TRUE]
    ELSE lease_status("AllowedToPush", "RemoteDiverged", src, track)

push_negotiation(impl, mode, hasUpdate, src, track) ==
    IF impl = "git_rs" THEN Git_push_negotiation(mode, hasUpdate, src, track)
    ELSE custom_push_negotiation(mode, hasUpdate, src, track)

\* (mutant) the '+' is left out of every refspec
refspec_force_never(impl, mode) == FALSE

\* Whether the refspec handed to remote.push starts with '+'
refspec_force(impl, mode) ==
    IF impl = "git_rs" THEN TRUE ELSE mode = "Force"

\* remote.push after an accepted negotiation: a refspec without '+' is refused
\* unless the remote branch is absent, up to date or an ancestor of the local one
transfer_allowed(force, loid, roid) ==
    \/ force
    \/ roid = NullOid
    \/ loid = roid
    \/ StrictFastForward(loid, roid)

\* The value the push call returns, from the cell and the result of remote.push
Git_push_classify(cell, push_res) ==
    CASE cell = "NoUpdate" -> "Err_not_pushed"
      [] cell = "NotYetImplemented" -> "Err_not_yet_implemented"
      [] cell = "RemoteOriginDiverged" -> "Err_remote_has_diverged"
      [] cell = "Pushed" -> "Ok"
      [] cell = "NewBranchPushed" -> "Ok"
      [] OTHER -> "Ok"

custom_push_classify(cell, push_res) ==
    CASE cell = "None" -> "panic"
      [] cell = "NoPushNeeded" -> "Ok"
      [] cell = "RemoteDiverged" -> "Err_NotPushed_diverged"
      [] cell \in {"AllowedToPush", "AllowedToPushNewBranch"} /\ push_res # "ok" ->
            "Err_NotPushed_transport"
      [] OTHER -> "Ok"

classify(impl, cell, push_res) ==
    IF impl = "git_rs" THEN Git_push_classify(cell, push_res)
    ELSE custom_push_classify(cell, push_res)

IsErr(ret) == ret \in {"Err_not_pushed", "Err_not_yet_implemented",
                       "Err_remote_has_diverged", "Err_NotPushed_diverged",
                       "Err_NotPushed_transport"}

\* ------------------------------------------------------------- push call
\* pc: idle -> push (remote.push is called) -> transfer (the callback returned
\* Ok) -> returned (remote.push returned) -> done (the cell was read)
IdleCall == [pc |-> "idle", caller |-> "none", impl |-> "none", mode |-> "none",
             origin |-> "none", branch |-> "none", cell |-> "None", offered |-> FALSE,
             push_res |-> "none", ret |-> "none", remote_src |-> NullOid,
             lease |-> NullOid, local_dst |-> NullOid]

NoBranch == "none"
\* The branch of the stack being worked on, which no plan gives as a target
TopicBranch == "topic"
NoPlan == [o \in Oids |-> NoBranch]
NoOutcomes == [o \in Oids |-> "none"]

IdleRun == [pc |-> "idle", via |-> "none", force |-> FALSE, no_push_flag |-> FALSE,
            onto |-> "none", list |-> "none", list_name |-> "none", listed |-> {},
            lines |-> <<>>,
            read |-> "none", edit |-> "none", origin |-> "none",
            parse |-> "none", no_push |-> FALSE, branches |-> NoPlan, todo |-> {}, current |-> NullOid,
            moved |-> {}, was |-> NullOid, outcomes |-> NoOutcomes, result |-> "none"]

\* No plan text yet, no note on any commit, no operation on the notes
IdlePlan == [pc |-> "start", commits |-> <<>>, source |-> "none", text |-> <<>>,
             original |-> <<>>, out |-> <<>>]
MaxNoteOid == 2
MaxInstructions == 2
NoteOids == 1..MaxNoteOid
NoNote == [present |-> FALSE, lines |-> <<>>]
NoNotes == [o \in NoteOids |-> NoNote]
IdleStoreOp == [op |-> "none", impl |-> "none", policy |-> "none", oid |-> NullOid,
                key |-> "none", before |-> NoNotes, done |-> <<>>, out |-> <<>>,
                ret |-> "none"]

\* No history looked at yet: HEAD on the first commit, no main nor master
MainNames == <<"main", "master">>
IdleListing == [pc |-> "idle", impl |-> "none", head_oid |-> 1,
                refs |-> [b \in {"main", "master"} |-> NullOid],
                until |-> "none", found |-> "none", out |-> <<>>, ret |-> "none"]

\* ------------------------------------------------------- configuration
\* src/src/git/config.rs and crates/yggit-config.  A configuration gives each
\* key its value or Unset; EDITOR is the variable of the environment.
Unset == "(unset)"
RewriteRef == "refs/notes/commits"
DefaultRemote == "origin"
ConfigFiles == [user_email : {Unset, "kenobi@example.com"},
                user_name : {Unset, "Obi-Wan"},
                core_editor : {Unset, "neovim"},
                EDITOR : {Unset, "vi"},
                notes_rewriteRef : {Unset, RewriteRef, "refs/notes/other"},
                yggit_defaultUpstream : {Unset, DefaultRemote, "upstream"}]
ConfigLoaders == {"config_rs", "yggit_config"}

\* config.get_string(key) is Err for a key that is not set
get_string(value) == value # Unset

\* core.editor, or else the EDITOR variable
editor_of(file) ==
    IF get_string(file.core_editor) THEN file.core_editor ELSE file.EDITOR

LoadError(error) == [ok |-> FALSE, error |-> error, editor |-> Unset,
                     default_upstream |-> Unset]

\* (mutant) notes.rewriteRef only has to be set, whatever its value
open_with_git_config_any_rewrite_ref(file) ==
    IF ~get_string(file.user_email) THEN LoadError("email not found in configuration")
    ELSE IF ~get_string(file.user_name) THEN LoadError("name not found in configuration")
    ELSE IF ~get_string(editor_of(file)) THEN LoadError("editor not found in configuration")
    ELSE IF ~get_string(file.notes_rewriteRef) THEN LoadError("notes.rewriteRef wasn't found")
    ELSE [ok |-> TRUE, error |-> "none", editor |-> editor_of(file),
          default_upstream |-> IF get_string(file.yggit_defaultUpstream)
                               THEN file.yggit_defaultUpstream ELSE DefaultRemote]

\* GitConfig::open_with_git_config (src/src/git/config.rs)
open_with_git_config(file) ==
    IF ~get_string(file.user_email) THEN LoadError("email not found in configuration")
    ELSE IF ~get_string(file.user_name) THEN LoadError("name not found in configuration")
    ELSE IF ~get_string(editor_of(file)) THEN LoadError("editor not found in configuration")
    ELSE IF ~get_string(file.notes_rewriteRef) THEN LoadError("notes.rewriteRef wasn't found")
    ELSE IF file.notes_rewriteRef # RewriteRef
    THEN LoadError("rewriteRef should be set to refs/notes/commits")
    ELSE [ok |-> TRUE, error |-> "none", editor |-> editor_of(file),
          default_upstream |-> IF get_string(file.yggit_defaultUpstream)
                               THEN file.yggit_defaultUpstream ELSE DefaultRemote]

\* GitConfig::new (crates/yggit-config): yggit.defaultUpstream is not read
GitConfig_new(file) ==
    IF ~get_string(file.user_name) THEN LoadError("ValueNotPresentInConfig user.name")
    ELSE IF ~get_string(file.user_email) THEN LoadError("ValueNotPresentInConfig user.email")
    ELSE IF ~get_string(editor_of(file)) THEN LoadError("ValueNotPresentInEnv EDITOR")
    ELSE IF ~get_string(file.notes_rewriteRef)
    THEN LoadError("ValueNotPresentInConfig notes.rewriteRef")
    ELSE IF file.notes_rewriteRef # RewriteRef THEN LoadError("WrongRewriteRefValue")
    ELSE [ok |-> TRUE, error |-> "none", editor |-> editor_of(file),
          default_upstream |-> Unset]

load_config(loader, file) ==
    IF loader = "config_rs" THEN open_with_git_config(file) ELSE GitConfig_new(file)

NotLoaded(file) == [file |-> file, loader |-> "none", loaded |-> "none",
                    error |-> "none", editor |-> Unset, default_upstream |-> Unset]

\* The configuration of the tests (test_open), loaded by the binary
TestConfigFile == [user_email |-> "kenobi@example.com", user_name |-> "Obi-Wan",
                   core_editor |-> "neovim", EDITOR |-> Unset,
                   notes_rewriteRef |-> RewriteRef,
                   yggit_defaultUpstream |-> DefaultRemote]

\* The configuration after its load by one of the two loaders
Loaded(loader, file) ==
    LET r == load_config(loader, file)
    IN [file |-> file, loader |-> loader, loaded |-> IF r.ok THEN "Ok" ELSE "Err",
        error |-> r.error, editor |-> r.editor, default_upstream |-> r.default_upstream]

LoadedConfig == Loaded("yggit_config", TestConfigFile)

\* main: GitConfig::new(&repository).expect("invalid config"), and Git::open of
\* src/src/git/git.rs, which returns the error of the parse
LoadConfig(loader) ==
    /\ config.loaded = "none"
    /\ run.pc = "idle"
    /\ config' = Loaded(loader, config.file)
    /\ UNCHANGED <<localRef, trackRef, remoteRef, db, call, run, head, todo, notes,
                   store_op, listing>>

\* The cell is created empty and the remote is looked up; remote.push comes next
BeginCall(caller, impl, mode, origin, b) ==
    call' = [pc |-> "push", caller |-> caller, impl |-> impl, mode |-> mode,
             origin |-> origin, branch |-> b, cell |-> "None", offered |-> FALSE,
             push_res |-> "none", ret |-> "none", remote_src |-> remoteRef[b],
             lease |-> trackRef[b], local_dst |-> localRef[b]]

\* push_force_with_lease / push_force / push called on one of the two clients
ApiPush(impl, mode, b) ==
    /\ call.pc = "idle"
    /\ run.pc = "idle"
    /\ BeginCall("api", impl, mode, DefaultRemote, b)
    /\ UNCHANGED <<listing, config, head, todo, notes, store_op, localRef, trackRef, remoteRef, db, run>>

\* remote.push fails before the negotiation callback is invoked: the remote
\* cannot be reached, or refs/heads/<branch> does not exist locally
TransportFailsEarly ==
    /\ call.pc = "push"
    /\ call' = [call EXCEPT !.pc = "returned", !.push_res = "err_connect"]
    /\ UNCHANGED <<listing, config, head, todo, notes, store_op, localRef, trackRef, remoteRef, db, run>>

\* remote.push invokes the callback with the update of the branch (or with no
\* update, which only a remote already at the local commit can lead to); the
\* callback writes the cell, and an Err from it ends remote.push
TransportNegotiates(hasUpdate) ==
    /\ call.pc = "push"
    /\ call.local_dst # NullOid
    /\ hasUpdate \/ call.local_dst = call.remote_src
    /\ LET r == push_negotiation(call.impl, call.mode, hasUpdate,
                                 remoteRef[call.branch], trackRef[call.branch])
       IN call' = [call EXCEPT !.cell = r.status,
                               !.offered = hasUpdate,
                               !.pc = IF r.ok THEN "transfer" ELSE "returned",
                               !.push_res = IF r.ok THEN "none" ELSE "err_callback"]
    /\ UNCHANGED <<listing, config, head, todo, notes, store_op, localRef, trackRef, remoteRef, db, run>>

\* The data transfer succeeds: the remote branch and the tracking reference
\* move to the local commit
TransportTransfers ==
    /\ call.pc = "transfer"
    /\ transfer_allowed(refspec_force(call.impl, call.mode), call.local_dst,
                        remoteRef[call.branch])
    /\ remoteRef' = [remoteRef EXCEPT ![call.branch] = call.local_dst]
    /\ trackRef' = [trackRef EXCEPT ![call.branch] = call.local_dst]
    /\ call' = [call EXCEPT !.pc = "returned", !.push_res = "ok"]
    /\ UNCHANGED <<listing, config, head, todo, notes, store_op, localRef, db, run>>

\* remote.push refuses a non fast-forward update of a refspec without '+'
TransportRefusesNonFastForward ==
    /\ call.pc = "transfer"
    /\ ~transfer_allowed(refspec_force(call.impl, call.mode), call.local_dst,
                         remoteRef[call.branch])
    /\ call' = [call EXCEPT !.pc = "returned", !.push_res = "err_non_fast_forward"]
    /\ UNCHANGED <<listing, config, head, todo, notes, store_op, localRef, trackRef, remoteRef, db, run>>

\* The transport fails after the negotiation accepted the push
TransportFailsLate ==
    /\ call.pc = "transfer"
    /\ call' = [call EXCEPT !.pc = "returned", !.push_res = "err_transport"]
    /\ UNCHANGED <<listing, config, head, todo, notes, store_op, localRef, trackRef, remoteRef, db, run>>

\* (mutant) the caller reads the cell while remote.push is still transferring
Classify_during_push ==
    /\ call.pc \in {"transfer", "returned"}
    /\ call' = [call EXCEPT !.pc = "done",
                            !.ret = classify(call.impl, call.cell, call.push_res)]
    /\ UNCHANGED <<listing, config, head, todo, notes, store_op, localRef, trackRef,
                   remoteRef, db, run>>

\* remote.push has returned: the caller reads the cell and classifies
Classify ==
    /\ call.pc = "returned"
    /\ call' = [call EXCEPT !.pc = "done",
                            !.ret = classify(call.impl, call.cell, call.push_res)]
    /\ UNCHANGED <<listing, config, head, todo, notes, store_op, localRef, trackRef, remoteRef, db, run>>

ApiReturn ==
    /\ call.pc = "done"
    /\ call.caller = "api"
    /\ call' = IdleCall
    /\ UNCHANGED <<listing, config, head, todo, notes, store_op, localRef, trackRef, remoteRef, db, run>>

\* ----------------------------------------------------------- environment
\* Another clone pushes with --force (GitTmp::push of the tests)
OutOfBandPush(b, o) ==
    /\ call.pc = "idle"
    /\ run.pc = "idle"
    /\ remoteRef[b] # o
    /\ remoteRef' = [remoteRef EXCEPT ![b] = o]
    /\ UNCHANGED <<listing, config, head, todo, notes, store_op, localRef, trackRef, db, call, run>>

\* git pull / fetch: the tracking reference records the remote position
Fetch(b) ==
    /\ call.pc = "idle"
    /\ run.pc = "idle"
    /\ trackRef[b] # remoteRef[b]
    /\ trackRef' = [trackRef EXCEPT ![b] = remoteRef[b]]
    /\ UNCHANGED <<listing, config, head, todo, notes, store_op, localRef, remoteRef, db, call, run>>

\* git commit / commit --amend / checkout -b on the local clone
LocalCommit(b, o) ==
    /\ call.pc = "idle"
    /\ run.pc = "idle"
    /\ localRef[b] # o
    /\ localRef' = [localRef EXCEPT ![b] = o]
    /\ UNCHANGED <<listing, config, head, todo, notes, store_op, trackRef, remoteRef, db, call, run>>

\* A fresh clone of an empty bare repository (GitTmp::init_bare)
Init ==
    /\ localRef = [b \in Branches |-> NullOid]
    /\ trackRef = [b \in Branches |-> NullOid]
    /\ remoteRef = [b \in Branches |-> NullOid]
    /\ db = [o \in Oids |-> NoBranch]
    /\ call = IdleCall
    /\ run = IdleRun
    /\ head = TopicBranch
    /\ config = LoadedConfig
    /\ listing = IdleListing
    /\ todo = IdlePlan
    /\ notes = NoNotes
    /\ store_op = IdleStoreOp

Next ==
    \/ \E i \in Impls, m \in Modes, b \in Branches : ApiPush(i, m, b)
    \/ TransportFailsEarly
    \/ \E u \in BOOLEAN : TransportNegotiates(u)
    \/ TransportTransfers
    \/ TransportRefusesNonFastForward
    \/ TransportFailsLate
    \/ Classify
    \/ ApiReturn
    \/ \E b \in Branches, o \in Oids : OutOfBandPush(b, o)
    \/ \E b \in Branches : Fetch(b)
    \/ \E b \in Branches, o \in Oids : LocalCommit(b, o)

Spec == Init /\ [][Next]_vars

\* ------------------------------------------------------- the push command
\* crates/yggit/src/main.rs, struct Push: the value clap gives no_push
ClapDefaultNoPush == TRUE
Cli_no_push(flagGiven) == flagGiven \/ ClapDefaultNoPush

\* yggit-core push, the client method called for each branch
core_push_mode(force) ==
    IF force THEN "ForceWithLease" ELSE "Normal"

ListedCommits == Oids
PlanDomain(branches) == {o \in Oids : branches[o] # NoBranch}
Plans == {p \in [Oids -> Branches \cup {NoBranch}] :
            Cardinality(PlanDomain(p)) <= MaxPlan}
Vias == {"cli_push", "cli_apply", "lib"}

\* What Parser::parse_file and the Oid::from_str of the pairing make of the
\* edited text: the lines, ParserError, or CoreError::OidParsing
ParseOutcomes == {"ok", "ParserError", "OidParsing"}

\* (mutant) the error of the parse is dropped and the plan is used all the same
parse_result_error_dropped(outcome, plan) ==
    [ok |-> TRUE, branches |-> plan]

\* let parsed_todo = Parser::parse_file(..)?; let branches = ...collect()?;
parse_result(outcome, plan) ==
    IF outcome = "ok" THEN [ok |-> TRUE, branches |-> plan]
    ELSE [ok |-> FALSE, branches |-> NoPlan]

\* (mutant) the test of no_push is missing after the save
ends_after_save_without_no_push(no_push, branches) ==
    PlanDomain(branches) = {}

\* if no_push { return Ok(()) }; a loop over no branch returns Ok(()) as well
ends_after_save(no_push, branches) ==
    no_push \/ PlanDomain(branches) = {}

\* A "branch" value of a note that is not a Branch (serde_json::from_value fails)
CorruptRecord == "(corrupt)"

\* db.read::<Branch>(&commit.oid, "branch") of every listed commit, collected
\* into a Result: one Err is the result of the whole
read_branches(listed, store) ==
    IF \E o \in listed : store[o] = CorruptRecord THEN "DatabaseError" ELSE "ok"

\* What the editor does: it hands the text back, it cannot be started, or it
\* ends with a status that is not success
EditOutcomes == {"ok", "cannot open todo in editor", "editor did not correctly end"}

\* (mutant) the Err of the editor is dropped and the command goes on
edit_result_error_dropped(edit) == [ok |-> TRUE]

\* let todo = editor.edit(todo).map_err(CoreError::EditorError)?;
edit_result(edit) == [ok |-> edit = "ok"]

\* The origin of the targets of the plan: none, or one named in the plan
NoOrigin == "none"
PlanOrigins == {NoOrigin, "fork"}

\* let origin = branch.origin.unwrap_or("origin".to_string());
push_origin(origin) == IF origin = NoOrigin THEN DefaultRemote ELSE origin

\* The lines Parser::parse_file gives: Line::Commit with its sha (the title is
\* not used after the parse) and Line::Branch with its name; comments are left out
CommitLine(oid) == <<"commit", oid, NoBranch>>
BranchLine(name) == <<"branch", NullOid, name>>

\* parsed_todo.windows(2) ... collect::<HashMap<Oid, Branch>>(): every commit line
\* directly followed by a branch line gives an entry, a later entry of the same
\* commit replacing the earlier one
RECURSIVE todo_branches(_)
todo_branches(lines) ==
    IF Len(lines) < 2 THEN NoPlan
    ELSE LET n == Len(lines)
             rest == todo_branches(SubSeq(lines, 1, n - 1))
         IN IF lines[n - 1][1] = "commit" /\ lines[n][1] = "branch"
            THEN [rest EXCEPT ![lines[n - 1][2]] = lines[n][3]]
            ELSE rest

\* The todo handed to the editor: the line of each listed commit, followed by
\* the line of its branch when it has one
RECURSIVE todo_lines(_, _)
todo_lines(oids, branches) ==
    IF oids = <<>> THEN <<>>
    ELSE (IF branches[Head(oids)] = NoBranch THEN <<CommitLine(Head(oids))>>
          ELSE <<CommitLine(Head(oids)), BranchLine(branches[Head(oids)])>>)
         \o todo_lines(Tail(oids), branches)

\* What git.list_commits(&onto) returned: the ids from HEAD down, or its error
\* and the branch name the error carries
Listed(onto, oids) ==
    [onto |-> onto, ok |-> TRUE, error |-> "none", name |-> NoBranch, oids |-> oids]
NotListed(onto, error, name) ==
    [onto |-> onto, ok |-> FALSE, error |-> error, name |-> name, oids |-> <<>>]
ListedAll == Listed("main", [i \in 1..MaxOid |-> MaxOid + 1 - i])
Range(seq) == {seq[i] : i \in DOMAIN seq}

\* yggit-core push up to the parsed plan: the commits are listed, their records
\* read, the plan is rendered, edited and parsed, and the branch of each commit
\* is taken from it.
\* via: the push command of the binary, its apply command (both after main has
\* loaded the configuration), or a call of the function with the given arguments.
\* list: what list_commits returned; lines: the lines of the edited todo.
RunStart(via, force, flag, list, lines, outcome, edit, origin) ==
    /\ run.pc = "idle"
    /\ call.pc = "idle"
    /\ via \in {"cli_push", "cli_apply"} => config.loaded = "Ok"
    /\ via = "cli_apply" => (~force /\ flag)
    /\ ~list.ok => (edit = "ok" /\ outcome = "ok" /\ lines = <<>>)
    /\ outcome # "ok" => todo_branches(lines) = NoPlan
    /\ edit # "ok" => (outcome = "ok" /\ todo_branches(lines) = NoPlan)
    /\ todo_branches(lines) = NoPlan => origin = NoOrigin
    /\ LET listed == Range(list.oids)
           read == IF list.ok THEN read_branches(listed, db) ELSE "none"
           edited == read = "ok" /\ edit_result(edit).ok
           r == IF edited THEN parse_result(outcome, todo_branches(lines))
                ELSE [ok |-> FALSE, branches |-> NoPlan]
       IN run' = [IdleRun EXCEPT
                    !.pc = IF r.ok THEN "parsed" ELSE "rejected",
                    !.via = via,
                    !.force = force,
                    !.no_push_flag = flag,
                    !.onto = list.onto,
                    !.list = IF list.ok THEN "ok" ELSE list.error,
                    !.list_name = list.name,
                    !.listed = listed,
                    !.lines = IF r.ok THEN lines ELSE <<>>,
                    !.read = read,
                    !.edit = IF read = "ok" THEN edit ELSE "none",
                    !.parse = IF edited THEN outcome ELSE "none",
                    !.origin = IF r.ok THEN origin ELSE NoOrigin,
                    !.no_push = IF via = "cli_push" THEN Cli_no_push(flag) ELSE flag,
                    !.branches = r.branches,
                    !.result = IF r.ok THEN "none" ELSE "Err"]
    /\ UNCHANGED <<listing, config, head, todo, notes, store_op, localRef, trackRef, remoteRef, db, call>>

\* (mutant) the record of a commit is written from the plan and never deleted
RunSave_without_delete ==
    /\ run.pc = "parsed"
    /\ db' = [o \in Oids |-> IF o \in run.listed /\ run.branches[o] # NoBranch
                             THEN run.branches[o] ELSE db[o]]
    /\ run' = IF ends_after_save(run.no_push, run.branches)
              THEN [run EXCEPT !.pc = "finished", !.result = "Ok"]
              ELSE [run EXCEPT !.pc = "loop", !.todo = PlanDomain(run.branches)]
    /\ UNCHANGED <<listing, config, head, todo, notes, store_op, localRef, trackRef,
                   remoteRef, call>>

\* "Now we need to save the state": for every listed commit the branch record
\* is deleted and written again from the plan; then no_push ends the command
RunSave ==
    /\ run.pc = "parsed"
    /\ db' = [o \in Oids |-> IF o \in run.listed THEN run.branches[o] ELSE db[o]]
    /\ run' = IF ends_after_save(run.no_push, run.branches)
              THEN [run EXCEPT !.pc = "finished", !.result = "Ok"]
              ELSE [run EXCEPT !.pc = "loop", !.todo = PlanDomain(run.branches)]
    /\ UNCHANGED <<listing, config, head, todo, notes, store_op, localRef, trackRef, remoteRef, call>>

\* (mutant) the branch is created when absent and left where it is otherwise
set_branch_to_commit_no_force(checked_out, refs, branch, oid) ==
    IF refs[branch] # NullOid THEN [ok |-> TRUE, refs |-> refs]
    ELSE [ok |-> TRUE, refs |-> [refs EXCEPT ![branch] = oid]]

\* Git::set_branch_to_commit: repository.branch(branch, &commit, true), which
\* refuses to move the branch HEAD is on, wherever the branch points; the Err
\* is returned as GitError::BranchNotFound
set_branch_to_commit(checked_out, refs, branch, oid) ==
    IF branch = checked_out /\ refs[branch] # NullOid
    THEN [ok |-> FALSE, refs |-> refs]
    ELSE [ok |-> TRUE, refs |-> [refs EXCEPT ![branch] = oid]]

\* The next entry of the HashMap (in any order): set_branch_to_commit, whose Err
\* leaves the loop and the command (map_err(CoreError::GitError)?)
RunSetBranch(oid) ==
    /\ run.pc = "loop"
    /\ oid \in run.todo
    /\ LET branch == run.branches[oid]
           r == set_branch_to_commit(head, localRef, branch, oid)
       IN /\ localRef' = r.refs
          /\ run' = IF r.ok
                    THEN [run EXCEPT !.pc = "moved", !.current = oid,
                                     !.was = localRef[branch],
                                     !.moved = run.moved \cup {oid}]
                    ELSE [run EXCEPT !.pc = "aborted", !.current = oid,
                                     !.was = localRef[branch],
                                     !.todo = run.todo \ {oid},
                                     !.result = "Err"]
    /\ UNCHANGED <<listing, config, head, todo, notes, store_op, trackRef, remoteRef, db, call>>

\* (mutant) the branch of an entry is pushed without its pointer being moved
RunPush_without_move ==
    /\ run.pc = "loop"
    /\ call.pc = "idle"
    /\ \E oid \in run.todo :
          /\ BeginCall("run", "yggit_git", core_push_mode(run.force),
                       push_origin(run.origin), run.branches[oid])
          /\ run' = [run EXCEPT !.pc = "pushing", !.current = oid]
    /\ UNCHANGED <<listing, config, head, todo, notes, store_op, localRef, trackRef,
                   remoteRef, db>>

\* push_force_with_lease or push of the client, by the force argument
RunPush ==
    /\ run.pc = "moved"
    /\ call.pc = "idle"
    /\ BeginCall("run", "yggit_git", core_push_mode(run.force),
                 push_origin(run.origin), run.branches[run.current])
    /\ run' = [run EXCEPT !.pc = "pushing"]
    /\ UNCHANGED <<listing, config, head, todo, notes, store_op, localRef, trackRef, remoteRef, db>>

\* The call returned: an Err leaves the loop and the command (the ? operator)
RunPushReturn ==
    /\ run.pc = "pushing"
    /\ call.pc = "done"
    /\ call.caller = "run"
    /\ call' = IdleCall
    /\ LET out == [run.outcomes EXCEPT ![run.current] = call.ret]
           rest == run.todo \ {run.current}
       IN run' = CASE call.ret = "panic" ->
                        [run EXCEPT !.pc = "panicked", !.outcomes = out,
                                    !.todo = rest, !.result = "panic"]
                   [] IsErr(call.ret) ->
                        [run EXCEPT !.pc = "aborted", !.outcomes = out,
                                    !.todo = rest, !.result = "Err"]
                   [] OTHER ->
                        [run EXCEPT !.pc = IF rest = {} THEN "finished" ELSE "loop",
                                    !.outcomes = out, !.todo = rest,
                                    !.result = IF rest = {} THEN "Ok" ELSE "none"]
    /\ UNCHANGED <<listing, config, head, todo, notes, store_op, localRef, trackRef, remoteRef, db>>

\* A clone whose remote and tracking references are at any of the first commits
StartOids == {o \in OidOrNull : o <= 2}

InitRun ==
    /\ localRef = [b \in Branches |-> NullOid]
    /\ trackRef \in [Branches -> StartOids]
    /\ remoteRef \in [Branches -> StartOids]
    /\ db = [o \in Oids |-> NoBranch]
    /\ call = IdleCall
    /\ run = IdleRun
    /\ head = TopicBranch
    /\ config = LoadedConfig
    /\ listing = IdleListing
    /\ todo = IdlePlan
    /\ notes = NoNotes
    /\ store_op = IdleStoreOp

NextRun ==
    \/ \E v \in Vias, f \in BOOLEAN, n \in BOOLEAN, p \in Plans, r \in ParseOutcomes,
          e \in EditOutcomes :
            RunStart(v, f, n, ListedAll, todo_lines(ListedAll.oids, p), r, e, NoOrigin)
    \/ RunSave
    \/ \E o \in Oids : RunSetBranch(o)
    \/ RunPush
    \/ TransportFailsEarly
    \/ \E u \in BOOLEAN : TransportNegotiates(u)
    \/ TransportTransfers
    \/ TransportRefusesNonFastForward
    \/ TransportFailsLate
    \/ Classify
    \/ RunPushReturn

SpecRun == InitRun /\ [][NextRun]_vars

\* A clone whose commits carry records of an earlier run, the remote branches
\* being where they were last fetched
StoredRecords == [Oids -> {NoBranch, "main"}]
StoredRemotes == {[b \in Branches |-> o] : o \in StartOids}

InitStored ==
    /\ localRef = [b \in Branches |-> NullOid]
    /\ remoteRef \in StoredRemotes
    /\ trackRef = remoteRef
    /\ db \in StoredRecords
    /\ call = IdleCall
    /\ run = IdleRun
    /\ head = TopicBranch
    /\ config = LoadedConfig
    /\ listing = IdleListing
    /\ todo = IdlePlan
    /\ notes = NoNotes
    /\ store_op = IdleStoreOp

SpecStored == InitStored /\ [][NextRun]_vars

\* A clone with any branch checked out, its local branches absent or at any of
\* the first commits, nothing pushed yet
CheckedOut == Branches \cup {TopicBranch}

InitBranch ==
    /\ localRef \in [Branches -> StartOids]
    /\ trackRef = [b \in Branches |-> NullOid]
    /\ remoteRef = [b \in Branches |-> NullOid]
    /\ db = [o \in Oids |-> NoBranch]
    /\ call = IdleCall
    /\ run = IdleRun
    /\ head \in CheckedOut
    /\ head \in Branches => localRef[head] # NullOid
    /\ config = LoadedConfig
    /\ listing = IdleListing
    /\ todo = IdlePlan
    /\ notes = NoNotes
    /\ store_op = IdleStoreOp

SpecBranch == InitBranch /\ [][NextRun]_vars

\* A clone whose notes hold records of an earlier run, some of them with a
\* "branch" value that is not a Branch
CorruptRecords == [Oids -> {NoBranch, "main", CorruptRecord}]

InitCorrupt ==
    /\ localRef = [b \in Branches |-> NullOid]
    /\ trackRef = [b \in Branches |-> NullOid]
    /\ remoteRef = [b \in Branches |-> NullOid]
    /\ db \in CorruptRecords
    /\ call = IdleCall
    /\ run = IdleRun
    /\ head = TopicBranch
    /\ config = LoadedConfig
    /\ listing = IdleListing
    /\ todo = IdlePlan
    /\ notes = NoNotes
    /\ store_op = IdleStoreOp

SpecCorrupt == InitCorrupt /\ [][NextRun]_vars

\* The binary started with any configuration: main loads it, then runs the
\* command of its arguments, which ends after the save (no_push is always set)
InitConfig ==
    /\ localRef = [b \in Branches |-> NullOid]
    /\ trackRef = [b \in Branches |-> NullOid]
    /\ remoteRef = [b \in Branches |-> NullOid]
    /\ db = [o \in Oids |-> NoBranch]
    /\ call = IdleCall
    /\ run = IdleRun
    /\ head = TopicBranch
    /\ config \in {NotLoaded(file) : file \in ConfigFiles}
    /\ listing = IdleListing
    /\ todo = IdlePlan
    /\ notes = NoNotes
    /\ store_op = IdleStoreOp

CliVias == {"cli_push", "cli_apply"}

NextConfig ==
    \/ \E loader \in ConfigLoaders : LoadConfig(loader)
    \/ \E v \in CliVias, f \in BOOLEAN, n \in BOOLEAN, p \in Plans, r \in ParseOutcomes,
          e \in EditOutcomes, origin \in PlanOrigins :
            RunStart(v, f, n, ListedAll, todo_lines(ListedAll.oids, p), r, e, origin)
    \/ RunSave

SpecConfig == InitConfig /\ [][NextConfig]_vars

\* A clone whose configuration is loaded and sets yggit.defaultUpstream or not,
\* running plans whose targets name an origin or not
UpstreamFiles == {[TestConfigFile EXCEPT !.yggit_defaultUpstream = u] :
                    u \in {Unset, DefaultRemote, "upstream"}}

InitOrigin ==
    /\ localRef = [b \in Branches |-> NullOid]
    /\ trackRef = [b \in Branches |-> NullOid]
    /\ remoteRef = [b \in Branches |-> NullOid]
    /\ db = [o \in Oids |-> NoBranch]
    /\ call = IdleCall
    /\ run = IdleRun
    /\ head = TopicBranch
    /\ config \in {Loaded(loader, file) : loader \in ConfigLoaders, file \in UpstreamFiles}
    /\ listing = IdleListing
    /\ todo = IdlePlan
    /\ notes = NoNotes
    /\ store_op = IdleStoreOp

NextOrigin ==
    \/ \E v \in Vias, f \in BOOLEAN, n \in BOOLEAN, p \in Plans, r \in ParseOutcomes,
          e \in EditOutcomes, origin \in PlanOrigins :
            RunStart(v, f, n, ListedAll, todo_lines(ListedAll.oids, p), r, e, origin)
    \/ RunSave
    \/ \E o \in Oids : RunSetBranch(o)
    \/ RunPush
    \/ TransportFailsEarly
    \/ \E u \in BOOLEAN : TransportNegotiates(u)
    \/ TransportTransfers
    \/ TransportRefusesNonFastForward
    \/ TransportFailsLate
    \/ Classify
    \/ RunPushReturn

SpecOrigin == InitOrigin /\ [][NextOrigin]_vars

\* (mutant) show saves the branches of the text the editor returned, as push does
RunShow_saves(list, lines, edit) ==
    /\ run.pc = "idle"
    /\ call.pc = "idle"
    /\ run' = [IdleRun EXCEPT !.pc = "shown", !.via = "show", !.lines = lines,
                              !.listed = Range(list.oids), !.result = "Ok"]
    /\ db' = [o \in Oids |-> IF o \in Range(list.oids) THEN todo_branches(lines)[o]
                             ELSE db[o]]
    /\ UNCHANGED <<listing, config, head, todo, notes, store_op, localRef, trackRef,
                   remoteRef, call>>

\* yggit-core show: the commits are listed, their records read, the todo is
\* rendered and handed to the editor; the text the editor returns is dropped
RunShow(list, lines, edit) ==
    /\ run.pc = "idle"
    /\ call.pc = "idle"
    /\ ~list.ok => (edit = "ok" /\ lines = <<>>)
    /\ edit # "ok" => lines = <<>>
    /\ LET listed == Range(list.oids)
           read == IF list.ok THEN read_branches(listed, db) ELSE "none"
           edited == read = "ok" /\ edit_result(edit).ok
       IN run' = [IdleRun EXCEPT
                    !.pc = IF edited THEN "shown" ELSE "rejected",
                    !.via = "show",
                    !.onto = list.onto,
                    !.list = IF list.ok THEN "ok" ELSE list.error,
                    !.list_name = list.name,
                    !.listed = listed,
                    !.lines = IF edited THEN lines ELSE <<>>,
                    !.read = read,
                    !.edit = IF read = "ok" THEN edit ELSE "none",
                    !.result = IF edited THEN "Ok" ELSE "Err"]
    /\ UNCHANGED <<listing, config, head, todo, notes, store_op, localRef, trackRef,
                   remoteRef, db, call>>

\* ---------------------------------------------------------- the plan text
\* src/src/parser.rs.  A text is a sequence of lines and a line the sequence
\* of its words (line.split(' ')); the empty line is <<>>.
MaxCommits == 2
MaxTextLines == 3

ShaWords == {"c1", "c2", "c3"}
\* Words Oid::from_str accepts: the commit ids and any other word of hex digits
HexWords == ShaWords \cup {"add"}
Arrow == "->"
NoTarget == <<"no target">>
TargetNames == {<<"main">>, <<"origin:feat">>}

\* commit.message(): the title, or the title, an empty line and the description
Titles == {<<"fix">>}
Descriptions == {<<"fix", "it">>, <<"add", "it">>}
Messages == {<<t>> : t \in Titles}
            \cup {<<t, <<>>, d>> : t \in Titles, d \in Descriptions}

EnhancedCommits == [id : ShaWords, message : Messages,
                    note : TargetNames \cup {NoTarget}]

SeqsUpTo(S, n) == UNION {[1..k -> S] : k \in 0..n}

CommitLists == {cs \in SeqsUpTo(EnhancedCommits, MaxCommits) :
                  \A i, j \in 1..Len(cs) : cs[i].id = cs[j].id => i = j}

\* commits_to_string: "{id} {message.trim()}\n" and "-> {branch}\n" per commit
RECURSIVE commits_to_lines(_)
commits_to_lines(commits) ==
    IF commits = <<>> THEN <<>>
    ELSE LET commit == Head(commits)
             first == <<<<commit.id>> \o Head(commit.message)>>
             target == IF commit.note = NoTarget THEN <<>>
                       ELSE <<<<Arrow>> \o commit.note>>
         IN first \o Tail(commit.message) \o target
                  \o commits_to_lines(Tail(commits))

\* The lines string.split('\n') gives for the rendered string: every line ends
\* with "\n", so the last piece is the empty string
commits_to_string(commits) == commits_to_lines(commits) \o <<<<>>>>

\* The Option<Line> instruction_from_string makes of one line
NoLine == [kind |-> "None", oid |-> "", branch |-> <<>>]
current_line(line) ==
    IF Len(line) > 0 /\ Head(line) = Arrow
    THEN [kind |-> "Action", oid |-> "", branch |-> Tail(line)]
    ELSE IF Len(line) > 0 /\ Head(line) \in HexWords
    THEN [kind |-> "Oid", oid |-> Head(line), branch |-> <<>>]
    ELSE NoLine

\* The match on (before, current_line): the instruction pushed for this line
instruction_of(before, current) ==
    IF before.kind = "Oid" /\ current.kind = "Action"
    THEN <<[id |-> before.oid, action |-> current.branch]>>
    ELSE IF before.kind = "Oid"
    THEN <<[id |-> before.oid, action |-> NoTarget]>>
    ELSE <<>>

RECURSIVE instructions_from(_, _)
instructions_from(lines, before) ==
    IF lines = <<>> THEN <<>>
    ELSE LET current == current_line(Head(lines))
         IN instruction_of(before, current)
              \o instructions_from(Tail(lines), current)

instruction_from_string(lines) == instructions_from(lines, NoLine)

\* What the editor can hand back: any text of a few lines
LineValues == {<<>>, <<"c1", "fix">>, <<"c2", "fix">>, <<Arrow, "main">>,
               <<"#", "fix">>, <<"$", "test">>}
Texts == SeqsUpTo(LineValues, MaxTextLines)
CommentLine == <<"#", "help">>

InsertAt(lines, k, line) ==
    SubSeq(lines, 1, k) \o <<line>> \o SubSeq(lines, k + 1, Len(lines))

\* git.list_commits(): the commits with their notes
ListCommits(commits) ==
    /\ todo.pc = "start"
    /\ todo' = [todo EXCEPT !.pc = "listed", !.commits = commits]
    /\ UNCHANGED <<pushVars, notes, store_op>>

\* let output = commits_to_string(commits), written to the file as it is
RenderTodo ==
    /\ todo.pc = "listed"
    /\ LET output == commits_to_string(todo.commits)
       IN todo' = [todo EXCEPT !.pc = "text", !.source = "rendered",
                               !.text = output, !.original = output]
    /\ UNCHANGED <<pushVars, notes, store_op>>

\* The file read back from the editor holds any text
TypeTodo(text) ==
    /\ todo.pc = "start"
    /\ todo' = [todo EXCEPT !.pc = "text", !.source = "typed",
                            !.text = text, !.original = text]
    /\ UNCHANGED <<pushVars, notes, store_op>>

\* A line starting with '#' is added to the text after its first k lines
InsertComment(k) ==
    /\ todo.pc = "text"
    /\ todo.text = todo.original
    /\ k \in 0..Len(todo.text)
    /\ todo' = [todo EXCEPT !.text = InsertAt(todo.text, k, CommentLine)]
    /\ UNCHANGED <<pushVars, notes, store_op>>

\* let instructions = instruction_from_string(file)
ParseTodo ==
    /\ todo.pc = "text"
    /\ todo' = [todo EXCEPT !.pc = "parsed",
                            !.out = instruction_from_string(todo.text)]
    /\ UNCHANGED <<pushVars, notes, store_op>>

NextText ==
    \/ \E commits \in CommitLists : ListCommits(commits)
    \/ RenderTodo
    \/ \E text \in Texts : TypeTodo(text)
    \/ \E k \in 0..(MaxTextLines + 3 * MaxCommits + 1) : InsertComment(k)
    \/ ParseTodo

SpecText == Init /\ [][NextText]_vars

\* ------------------------------------------------------------- the notes
\* src/src/core.rs Note, src/src/git/git.rs set_note / delete_note / find_note,
\* crates/yggit-db GitDatabase.  A blob is the sequence of the pieces
\* split('\n') gives; a piece is a serialized record or a blank piece.
NoPush == "no push"
NoteTargets == {"main", "feat"}
TestLists == {<<>>, <<"t1">>, <<"t2">>}
Notes == [push : NoteTargets \cup {NoPush}, tests : TestLists]
DefaultNote == [push |-> NoPush, tests |-> <<>>]

\* Note::is_empty: self == &Self::default()
is_empty(note) == note = DefaultNote

BlankLine == [kind |-> "blank", note |-> DefaultNote]
None == [some |-> FALSE, note |-> DefaultNote]
Some(note) == [some |-> TRUE, note |-> note]
unwrap_or_default(option) == IF option.some THEN option.note ELSE DefaultNote

\* serde_json::to_string(&note) and serde_json::from_str(&str).ok()
to_string(note) == [kind |-> "json", note |-> note]
from_str(line) == IF line.kind = "json" THEN Some(line.note) ELSE None

Blob(lines) == [present |-> TRUE, lines |-> lines]
NotBlank(line) == line.kind # "blank"
LastOf(lines) == lines[Len(lines)]

\* Git::find_note: the blank pieces are removed and the last one left is parsed
Git_find_note(blob) ==
    IF ~blob.present THEN None
    ELSE LET kept == SelectSeq(blob.lines, NotBlank)
         IN IF kept = <<>> THEN None ELSE from_str(LastOf(kept))

\* The note read of the first list_commits: string.split('\n').last()
list_commits_note(blob) ==
    IF ~blob.present THEN None ELSE from_str(LastOf(blob.lines))

\* (mutant) the note is added after the lines the commit already has
Git_set_note_appends(store, oid, note) ==
    [store EXCEPT ![oid] = Blob(store[oid].lines \o <<to_string(note)>>)]

\* Git::set_note: repository.note(.., &note, true) replaces the blob
Git_set_note(store, oid, note) ==
    [store EXCEPT ![oid] = Blob(<<to_string(note)>>)]

\* Git::delete_note: note_delete, NotFound being Ok(())
Git_delete_note(store, oid) ==
    [store EXCEPT ![oid] = NoNote]

\* (mutant) the merge builds the next note from the instruction alone
next_note_from_instruction(policy, current_note, new_commit) ==
    [push |-> new_commit.target, tests |-> new_commit.tests]

\* merge_notes: the next note of a commit under the policy
next_note(policy, current_note, new_commit) ==
    IF policy = "OnlyTarget"
    THEN [current_note EXCEPT !.push = new_commit.target]
    ELSE [current_note EXCEPT !.tests = new_commit.tests]

\* (mutant) the empty note is written like any other
store_next_note_always_set(store, oid, note) ==
    Git_set_note(store, oid, note)

\* merge_notes: "Check if empty": delete_note or set_note
store_next_note(store, oid, note) ==
    IF is_empty(note) THEN Git_delete_note(store, oid)
    ELSE Git_set_note(store, oid, note)

\* GitDatabase::read_note: the whole message is parsed as one JSON object,
\* anything else counts as the empty object
read_note(blob) ==
    IF ~blob.present THEN DefaultNote
    ELSE LET kept == SelectSeq(blob.lines, NotBlank)
         IN IF Len(kept) = 1 THEN unwrap_or_default(from_str(kept[1]))
            ELSE DefaultNote

\* GitDatabase::write_note: "Write the note and erase the old one"
write_note(store, oid, note) ==
    [store EXCEPT ![oid] = Blob(<<to_string(note)>>)]

DbKeys == {"branch", "tests"}
DbValues(key) == IF key = "branch" THEN NoteTargets ELSE TestLists \ {<<>>}
insert(note, key, value) ==
    IF key = "branch" THEN [note EXCEPT !.push = value]
    ELSE [note EXCEPT !.tests = value]
remove(note, key) ==
    IF key = "branch" THEN [note EXCEPT !.push = NoPush]
    ELSE [note EXCEPT !.tests = <<>>]

\* The part of a note one key holds
only(note, key) == insert(remove(DefaultNote, key), key,
                          IF key = "branch" THEN note.push ELSE note.tests)

\* DatabaseRead::read: Ok(None) when the map has no such key
GitDatabase_read(store, oid, key) ==
    LET note == read_note(store[oid])
    IN IF remove(note, key) = note THEN None ELSE Some(only(note, key))

\* (mutant) write stores a map that holds the written key only
GitDatabase_write_fresh_map(store, oid, key, value) ==
    write_note(store, oid, insert(DefaultNote, key, value))

\* DatabaseWrite::write and DatabaseDelete::delete
GitDatabase_write(store, oid, key, value) ==
    write_note(store, oid, insert(read_note(store[oid]), key, value))
GitDatabase_delete(store, oid, key) ==
    write_note(store, oid, remove(read_note(store[oid]), key))

\* The instructions handed to merge_notes (parser::Commit: hash, target, tests)
Policies == {"OnlyTarget", "OnlyTests"}
NewCommits == [hash : NoteOids, target : {NoPush, "feat"}, tests : {<<>>, <<"t2">>}]
StoreImpls == {"git_rs", "yggit_db"}

\* One turn of the loop of merge_notes: find_commit, next note, delete_note or
\* set_note, find_commit again and push of the commit on the result
MergeStep(policy, new_commit) ==
    /\ store_op.impl = "git_rs"
    /\ \/ store_op.op = "none"
       \/ store_op.op = "merge" /\ store_op.policy = policy
    /\ Len(store_op.done) < MaxInstructions
    /\ LET oid == new_commit.hash
           current_note == unwrap_or_default(Git_find_note(notes[oid]))
           next == next_note(policy, current_note, new_commit)
           store == store_next_note(notes, oid, next)
       IN /\ notes' = store
          /\ store_op' = [store_op EXCEPT
                            !.op = "merge", !.policy = policy, !.oid = oid,
                            !.before = notes,
                            !.done = Append(store_op.done, new_commit),
                            !.out = Append(store_op.out,
                                           [id |-> oid,
                                            note |-> Git_find_note(store[oid])])]
    /\ UNCHANGED <<pushVars, todo>>

\* merge_notes returns the commits it collected
MergeReturn ==
    /\ store_op.op = "merge"
    /\ store_op' = [store_op EXCEPT !.op = "merged", !.ret = "commits"]
    /\ UNCHANGED <<pushVars, todo, notes>>

\* git.set_note(oid, note), called with the notes that are not empty
SetNote(oid, note) ==
    /\ store_op.impl = "git_rs"
    /\ store_op.op \in {"none", "set_note", "delete_note"}
    /\ notes' = Git_set_note(notes, oid, note)
    /\ store_op' = [store_op EXCEPT
                      !.op = "set_note", !.oid = oid, !.before = notes,
                      !.done = <<[hash |-> oid, target |-> note.push,
                                  tests |-> note.tests]>>,
                      !.ret = "Ok"]
    /\ UNCHANGED <<pushVars, todo>>

\* git.delete_note(&oid)
DeleteNote(oid) ==
    /\ store_op.impl = "git_rs"
    /\ store_op.op \in {"none", "set_note", "delete_note"}
    /\ notes' = Git_delete_note(notes, oid)
    /\ store_op' = [store_op EXCEPT !.op = "delete_note", !.oid = oid,
                                    !.before = notes, !.ret = "Ok"]
    /\ UNCHANGED <<pushVars, todo>>

\* db.write(&oid, key, &value)
DbWrite(oid, key, value) ==
    /\ store_op.impl = "yggit_db"
    /\ store_op.op \in {"none", "db_write", "db_delete"}
    /\ notes' = GitDatabase_write(notes, oid, key, value)
    /\ store_op' = [store_op EXCEPT
                      !.op = "db_write", !.oid = oid, !.key = key, !.before = notes,
                      !.done = LET written == insert(DefaultNote, key, value)
                               IN <<[hash |-> oid, target |-> written.push,
                                     tests |-> written.tests]>>,
                      !.ret = "Ok"]
    /\ UNCHANGED <<pushVars, todo>>

\* db.delete(&oid, key)
DbDelete(oid, key) ==
    /\ store_op.impl = "yggit_db"
    /\ store_op.op \in {"none", "db_write", "db_delete"}
    /\ notes' = GitDatabase_delete(notes, oid, key)
    /\ store_op' = [store_op EXCEPT !.op = "db_delete", !.oid = oid, !.key = key,
                                    !.before = notes, !.ret = "Ok"]
    /\ UNCHANGED <<pushVars, todo>>

\* The notes found in the repository: none, one written by set_note, one added
\* with git notes add (it ends with a newline), or the notes of two commits
\* that git joined when the commits were squashed
StoredBlobs ==
    {NoNote,
     Blob(<<to_string([push |-> "main", tests |-> <<>>])>>),
     Blob(<<to_string([push |-> "main", tests |-> <<"t1">>]), BlankLine>>),
     Blob(<<to_string([push |-> "main", tests |-> <<>>]), BlankLine,
            to_string([push |-> NoPush, tests |-> <<"t1">>]), BlankLine>>)}

InitNotes ==
    /\ localRef = [b \in Branches |-> NullOid]
    /\ trackRef = [b \in Branches |-> NullOid]
    /\ remoteRef = [b \in Branches |-> NullOid]
    /\ db = [o \in Oids |-> NoBranch]
    /\ call = IdleCall
    /\ run = IdleRun
    /\ head = TopicBranch
    /\ config = LoadedConfig
    /\ listing = IdleListing
    /\ todo = IdlePlan
    /\ notes \in [NoteOids -> StoredBlobs]
    /\ \E impl \in StoreImpls : store_op = [IdleStoreOp EXCEPT !.impl = impl]

NextNotes ==
    \/ \E policy \in Policies, new_commit \in NewCommits : MergeStep(policy, new_commit)
    \/ MergeReturn
    \/ \E oid \in NoteOids, note \in Notes \ {DefaultNote} : SetNote(oid, note)
    \/ \E oid \in NoteOids : DeleteNote(oid)
    \/ \E oid \in NoteOids, key \in DbKeys : \E value \in DbValues(key) :
            DbWrite(oid, key, value)
    \/ \E oid \in NoteOids, key \in DbKeys : DbDelete(oid, key)

SpecNotes == InitNotes /\ [][NextNotes]_vars

\* The read of a note whose blob holds any few pieces
MaxBlobLines == 3
BlobLines == {BlankLine, to_string([push |-> "main", tests |-> <<>>]),
              to_string([push |-> NoPush, tests |-> <<"t1">>])}
AnyBlobs == {NoNote} \cup {Blob(lines) : lines \in SeqsUpTo(BlobLines, MaxBlobLines) \ {<<>>}}
Readers == {"find_note", "list_commits"}

\* git.find_note(oid), or the note read of the first list_commits
FindNote(reader, oid) ==
    /\ store_op.op = "none"
    /\ LET found == IF reader = "find_note" THEN Git_find_note(notes[oid])
                    ELSE list_commits_note(notes[oid])
       IN store_op' = [store_op EXCEPT !.op = "find", !.impl = reader, !.oid = oid,
                                       !.out = <<[id |-> oid, note |-> found]>>]
    /\ UNCHANGED <<pushVars, todo, notes>>

InitFind ==
    /\ localRef = [b \in Branches |-> NullOid]
    /\ trackRef = [b \in Branches |-> NullOid]
    /\ remoteRef = [b \in Branches |-> NullOid]
    /\ db = [o \in Oids |-> NoBranch]
    /\ call = IdleCall
    /\ run = IdleRun
    /\ head = TopicBranch
    /\ config = LoadedConfig
    /\ listing = IdleListing
    /\ todo = IdlePlan
    /\ \E blob \in AnyBlobs : notes = [o \in NoteOids |-> IF o = 1 THEN blob ELSE NoNote]
    /\ store_op = IdleStoreOp

NextFind == \E reader \in Readers, oid \in NoteOids : FindNote(reader, oid)

SpecFind == InitFind /\ [][NextFind]_vars

\* ------------------------------------------------------- the commit list
\* Git::main_branch and Git::list_commits of src/src/git/git.rs, Git::list_commits
\* of crates/yggit-git.  The history is the commits 1..MaxHistory of the graph.
MaxHistory == 4
History == 1..MaxHistory

\* commit.message(): a title, or a title, an empty line and a description
commit_message(oid) ==
    IF oid % 2 = 1 THEN <<<<"fix">>>> ELSE <<<<"add">>, <<>>, <<"add", "it">>>>

NoTitle == <<>>

\* Git::find_commit: the note, the first line of the message as the title and
\* the remaining lines as the description
find_commit(store, oid) ==
    [id |-> oid,
     title |-> Head(commit_message(oid)),
     description |-> Tail(commit_message(oid)),
     note |-> IF oid \in NoteOids THEN Git_find_note(store[oid]) ELSE None]

\* The Oid of a commit, as the client of crates/yggit-git returns it
oid_only(oid) == [id |-> oid, title |-> NoTitle, description |-> <<>>, note |-> None]

\* repository.graph_descendant_of: a commit is not a descendant of itself
graph_descendant_of(commit, ancestor) ==
    commit # ancestor /\ graph_descendant_or_self(commit, ancestor)

\* revwalk.push_head(): the commits from HEAD back to the first one
RECURSIVE revwalk(_)
revwalk(oid) ==
    IF oid = NullOid THEN <<>> ELSE <<oid>> \o revwalk(Parent(oid))

\* for oid in revwalk { if oid == boundary { break; } commits.push(..) }
RECURSIVE walk_until(_, _)
walk_until(walk, boundary) ==
    IF walk = <<>> \/ Head(walk) = boundary THEN <<>>
    ELSE <<Head(walk)>> \o walk_until(Tail(walk), boundary)

Reverse(seq) == [i \in 1..Len(seq) |-> seq[Len(seq) + 1 - i]]

RECURSIVE first_branch(_, _)
first_branch(names, refs) ==
    IF names = <<>> THEN "none"
    ELSE IF refs[Head(names)] # NullOid THEN Head(names)
    ELSE first_branch(Tail(names), refs)

\* (mutant) master is looked up before main
main_branch_master_first(refs) == first_branch(Reverse(MainNames), refs)

\* Git::main_branch: the first of main and master that find_branch finds
main_branch(refs) == first_branch(MainNames, refs)

ListError(error) == [ok |-> FALSE, error |-> error, commits |-> <<>>, name |-> NoBranch]

\* Git::list_commits (src/src/git/git.rs): up to the main branch, then reversed
Git_list_commits(refs, head_oid, store) ==
    IF main_branch(refs) = "none" THEN ListError("main/master to exist")
    ELSE LET walked == walk_until(revwalk(head_oid), refs[main_branch(refs)])
         IN [ok |-> TRUE, error |-> "none",
             commits |-> Reverse([i \in 1..Len(walked) |-> find_commit(store, walked[i])])]

\* (mutant) the walk starts without the test that until is an ancestor of HEAD
custom_list_commits_no_reach_check(refs, head_oid, until) ==
    IF refs[until] = NullOid THEN [ListError("BranchNotFound") EXCEPT !.name = until]
    ELSE LET walked == walk_until(revwalk(head_oid), refs[until])
         IN [ok |-> TRUE, error |-> "none",
             commits |-> [i \in 1..Len(walked) |-> oid_only(walked[i])]]

\* Git::list_commits (crates/yggit-git): up to the branch until, which has to be
\* an ancestor of HEAD; the ids in the order of the walk
custom_list_commits(refs, head_oid, until) ==
    IF refs[until] = NullOid THEN [ListError("BranchNotFound") EXCEPT !.name = until]
    ELSE IF ~graph_descendant_of(head_oid, refs[until]) THEN ListError("CannotReach")
    ELSE LET walked == walk_until(revwalk(head_oid), refs[until])
         IN [ok |-> TRUE, error |-> "none",
             commits |-> [i \in 1..Len(walked) |-> oid_only(walked[i])]]

ListImpls == {"git_rs", "yggit_git"}

\* git.main_branch()
GitMainBranch ==
    /\ listing.pc = "idle"
    /\ listing' = [listing EXCEPT !.pc = "main_branch", !.impl = "git_rs",
                                  !.found = main_branch(listing.refs),
                                  !.ret = IF main_branch(listing.refs) = "none"
                                          THEN "None" ELSE "Some"]
    /\ UNCHANGED <<localRef, trackRef, remoteRef, db, call, run, head, config, todo,
                   notes, store_op>>

\* git.list_commits() and git.list_commits(until)
GitListCommits(impl, until) ==
    /\ listing.pc = "idle"
    /\ impl = "git_rs" => until = main_branch(listing.refs)
    /\ impl = "yggit_git" => until \in {"main", "master"}
    /\ LET r == IF impl = "git_rs"
                THEN Git_list_commits(listing.refs, listing.head_oid, notes)
                ELSE custom_list_commits(listing.refs, listing.head_oid, until)
       IN listing' = [listing EXCEPT !.pc = "listed", !.impl = impl, !.until = until,
                                     !.out = r.commits,
                                     !.ret = IF r.ok THEN "Ok" ELSE r.error]
    /\ UNCHANGED <<localRef, trackRef, remoteRef, db, call, run, head, config, todo,
                   notes, store_op>>

\* A clone with HEAD on any commit, main and master absent or on any commit, and
\* a note on some commits
ListBlobs == {NoNote, Blob(<<to_string([push |-> "main", tests |-> <<>>])>>)}
HistoryRefs == [{"main", "master"} -> {NullOid} \cup History]

InitList ==
    /\ localRef = [b \in Branches |-> NullOid]
    /\ trackRef = [b \in Branches |-> NullOid]
    /\ remoteRef = [b \in Branches |-> NullOid]
    /\ db = [o \in Oids |-> NoBranch]
    /\ call = IdleCall
    /\ run = IdleRun
    /\ head = TopicBranch
    /\ config = LoadedConfig
    /\ todo = IdlePlan
    /\ notes \in [NoteOids -> ListBlobs]
    /\ store_op = IdleStoreOp
    /\ \E h \in History, refs \in HistoryRefs :
          listing = [IdleListing EXCEPT !.head_oid = h, !.refs = refs]

NextList ==
    \/ GitMainBranch
    \/ \E impl \in ListImpls, until \in {"none", "main", "master"} :
          GitListCommits(impl, until)

SpecList == InitList /\ [][NextList]_vars

\* ------------------------------------------- the commands on a listed range
\* yggit-core push, apply and show on the commits that git.list_commits(&onto)
\* gives, the editor handing back any text of a few lines.
MaxTodoLines == 2
TodoLineValues == {CommitLine(o) : o \in Oids} \cup {BranchLine(b) : b \in Branches}
TodoTexts == UNION {[1..n -> TodoLineValues] : n \in 0..MaxTodoLines}
Ontos == {"main", "master"}

\* git.list_commits(&onto) of crates/yggit-git: a Vec<Oid>, or a GitError
list_commits_onto(refs, head_oid, onto) ==
    LET r == custom_list_commits(refs, head_oid, onto)
    IN IF r.ok THEN Listed(onto, [i \in DOMAIN r.commits |-> r.commits[i].id])
       ELSE NotListed(onto, r.error, r.name)

\* A clone with HEAD on any commit, main absent or on any commit and where its
\* remote is, no master, feat pushed at the commit of HEAD and absent locally,
\* and the commits without record or with the record of an earlier run
RangeRecords == {[o \in Oids |-> NoBranch], [o \in Oids |-> "main"]}

InitTodo ==
    /\ \E h \in Oids, m \in OidOrNull :
          /\ listing = [IdleListing EXCEPT !.head_oid = h, !.refs["main"] = m]
          /\ localRef = [b \in Branches |-> IF b = "main" THEN m ELSE NullOid]
    /\ remoteRef = [localRef EXCEPT !["feat"] = listing.head_oid]
    /\ trackRef = remoteRef
    /\ db \in RangeRecords
    /\ call = IdleCall
    /\ run = IdleRun
    /\ head = TopicBranch
    /\ config = LoadedConfig
    /\ todo = IdlePlan
    /\ notes = NoNotes
    /\ store_op = IdleStoreOp

NextTodo ==
    \/ \E f \in BOOLEAN, n \in BOOLEAN, onto \in Ontos, lines \in TodoTexts :
            RunStart("lib", f, n, list_commits_onto(listing.refs, listing.head_oid, onto),
                     lines, "ok", "ok", NoOrigin)
    \/ \E f \in BOOLEAN, n \in BOOLEAN, onto \in Ontos, r \in ParseOutcomes,
          e \in EditOutcomes :
            RunStart("lib", f, n, list_commits_onto(listing.refs, listing.head_oid, onto),
                     <<>>, r, e, NoOrigin)
    \/ \E onto \in Ontos, lines \in TodoTexts, e \in EditOutcomes :
            RunShow(list_commits_onto(listing.refs, listing.head_oid, onto), lines, e)
    \/ RunSave
    \/ \E o \in Oids : RunSetBranch(o)
    \/ RunPush
    \/ TransportFailsEarly
    \/ \E u \in BOOLEAN : TransportNegotiates(u)
    \/ TransportTransfers
    \/ TransportRefusesNonFastForward
    \/ TransportFailsLate
    \/ Classify
    \/ RunPushReturn

SpecTodo == InitTodo /\ [][NextTodo]_vars

\* ------------------------------------------------------------------ claims
\* The callback was invoked with an update of an existing remote branch
NegotiatedUpdate ==
    /\ call.pc \in {"transfer", "returned", "done"}
    /\ call.offered
    /\ call.remote_src # NullOid

\* The callback was invoked with an update of a branch the remote does not have
NegotiatedNewBranch ==
    /\ call.pc \in {"transfer", "returned", "done"}
    /\ call.offered
    /\ call.remote_src = NullOid

\* C1: in ForceWithLease mode, when the remote branch exists and its position
\* differs from the recorded tracking position, the negotiation rejects the push
\* as diverged, the call returns an error and the remote branch keeps its position.
C1_LeaseRejectsDivergedRemote ==
    (/\ NegotiatedUpdate
     /\ call.mode = "ForceWithLease"
     /\ call.lease # NullOid
     /\ call.remote_src # call.lease)
    => /\ call.cell \in RejectedDiverged
       /\ call.pc # "transfer"
       /\ call.push_res = "err_callback"
       /\ remoteRef[call.branch] = call.remote_src
       /\ trackRef[call.branch] = call.lease
       /\ call.pc = "done" => IsErr(call.ret)

C1_Witness ==
    /\ call.pc = "done"
    /\ call.offered
    /\ call.mode = "ForceWithLease"
    /\ call.lease # NullOid
    /\ call.remote_src # NullOid
    /\ call.remote_src # call.lease
    /\ call.local_dst \notin {call.lease, call.remote_src}
    /\ IsErr(call.ret)

\* C2: in ForceWithLease mode, when the remote position equals the recorded
\* tracking position, the push is accepted and, unless the transport fails,
\* succeeds and moves the remote branch to the local commit, fast-forward or not.
C2_LeaseAcceptsCurrentRemote ==
    (/\ NegotiatedUpdate
     /\ call.pc = "done"
     /\ call.mode = "ForceWithLease"
     /\ call.remote_src = call.lease)
    => /\ call.cell \in AcceptedUpdate
       /\ call.push_res # "err_transport"
            => call.ret = "Ok" /\ remoteRef[call.branch] = call.local_dst

\* C3: in every mode, when the remote has no ref for the branch the negotiation
\* accepts the push as a new branch, and when the transport succeeds the remote
\* branch ends at the commit of the local branch.
C3_NewBranchAcceptedInEveryMode ==
    NegotiatedNewBranch
    => /\ call.cell \in AcceptedNew
       /\ call.push_res \notin {"err_callback", "err_non_fast_forward"}
       /\ call.push_res = "ok" => remoteRef[call.branch] = call.local_dst
       /\ (call.pc = "done" /\ call.push_res = "ok") => call.ret = "Ok"

C3_Witness ==
    /\ NegotiatedNewBranch
    /\ call.pc = "done"
    /\ call.mode = "Normal"
    /\ call.impl = "yggit_git"
    /\ call.push_res = "ok"
    /\ call.ret = "Ok"
    /\ remoteRef[call.branch] = call.local_dst

\* C4: in Force mode the negotiation accepts every update of an existing remote
\* branch, also when the remote position differs from the tracking position, and
\* unless the transport fails the push succeeds.
C4_ForceAcceptsEveryUpdate ==
    (NegotiatedUpdate /\ call.mode = "Force")
    => /\ call.cell \in AcceptedUpdate
       /\ call.push_res \notin {"err_callback", "err_non_fast_forward"}
       /\ (call.pc = "done" /\ call.push_res = "ok")
            => call.ret = "Ok" /\ remoteRef[call.branch] = call.local_dst

C4_Witness ==
    /\ NegotiatedUpdate
    /\ call.pc = "done"
    /\ call.mode = "Force"
    /\ call.lease # NullOid
    /\ call.lease # call.remote_src
    /\ ~StrictFastForward(call.local_dst, call.remote_src)
    /\ call.local_dst # call.remote_src
    /\ call.ret = "Ok"
    /\ remoteRef[call.branch] = call.local_dst

\* C5: in Normal mode an update of an existing remote branch is accepted if and
\* only if the local commit is a strict fast-forward of the remote position;
\* every other update is rejected as unimplemented and nothing is transferred.
C5_NormalAcceptsOnlyFastForward ==
    (NegotiatedUpdate /\ call.pc = "done" /\ call.mode = "Normal")
    => /\ call.cell \in Accepted
            <=> StrictFastForward(call.local_dst, call.remote_src)
       /\ call.cell \notin Accepted
            => /\ call.cell \in RejectedUnimplemented
               /\ remoteRef[call.branch] = call.remote_src

\* C6: for a push whose negotiation was given an update, the outcome is NotPushed
\* whenever the negotiation rejected, Pushed when it accepted and the transport
\* succeeded, and NotPushed when it accepted and the transport failed.
C6_OutcomeClassification ==
    (call.pc = "done" /\ call.offered)
    => /\ call.cell \in Rejected => IsErr(call.ret)
       /\ (call.cell \in Accepted /\ call.push_res = "ok") => call.ret = "Ok"
       /\ (call.cell \in Accepted /\ call.push_res # "ok") => IsErr(call.ret)

\* C7: the position of a remote branch changes during a push call only for the
\* branch of that call and only if the negotiation recorded an acceptance.
C7_TransferOnlyAfterAcceptance ==
    [][\A b \in Branches :
         (remoteRef'[b] # remoteRef[b] /\ call.pc # "idle")
         => (call.branch = b /\ call.cell \in Accepted)]_vars

C7_Witness ==
    /\ call.pc = "returned"
    /\ call.push_res = "ok"
    /\ call.cell \in Accepted
    /\ remoteRef[call.branch] # call.remote_src
    /\ remoteRef[call.branch] = call.local_dst

RunEnded == run.pc \in {"finished", "aborted", "panicked"}

\* No two entries of the plan name the same branch
DistinctTargets(branches) ==
    \A o1, o2 \in PlanDomain(branches) : branches[o1] = branches[o2] => o1 = o2

\* C8: when a plan has several target branches, a rejection or a transport error
\* on one branch does not stop the run: at the end of a run that pushes, the push
\* of every target branch of the plan was attempted and its outcome recorded.
C8_EveryBranchAttempted ==
    (/\ run.pc \in {"finished", "aborted"}
     /\ ~run.no_push
     /\ DistinctTargets(run.branches))
    => \A o \in PlanDomain(run.branches) : run.outcomes[o] # "none"

\* C9: the push command without --force pushes each target branch with
\* force-with-lease semantics, and with --force with plain force semantics.
C9_ForceFlagSelectsMode ==
    call.caller = "run"
    => call.mode = (IF run.force THEN "Force" ELSE "ForceWithLease")

\* C10: when the --no-push flag is not given to the push command, every target
\* branch of the plan is moved and a push of it is attempted after the save.
C10_PushPhaseByDefault ==
    (run.via = "cli_push" /\ ~run.no_push_flag /\ RunEnded)
    => \A o \in PlanDomain(run.branches) :
          /\ db[o] = run.branches[o]
          /\ o \in run.moved
          /\ run.outcomes[o] # "none"

\* C11: when push runs with no_push set, the records of the edited plan are
\* saved, no local branch is moved and no push call is made.
C11_NoPushOnlySaves ==
    [][(run'.no_push /\ run'.pc # "idle")
       => /\ localRef' = localRef
          /\ remoteRef' = remoteRef
          /\ trackRef' = trackRef
          /\ call' = IdleCall
          /\ run'.moved = {}
          /\ run.pc = "parsed"
               => /\ db' = [o \in Oids |-> run.branches[o]]
                  /\ run'.pc = "finished"
                  /\ run'.result = "Ok"]_vars

C11_Witness ==
    /\ run.pc = "finished"
    /\ run.no_push
    /\ run.via = "cli_apply"
    /\ PlanDomain(run.branches) # {}
    /\ db = run.branches
    /\ \A b \in Branches : localRef[b] = NullOid

\* C12: when the parse of the edited plan fails, the command ends with an error
\* and no record is written or deleted, no branch is moved, no push is made.
C12_ParseFailureChangesNothing ==
    [][run'.parse \in ParseOutcomes \ {"ok"}
       => /\ run'.pc = "rejected"
          /\ run'.result = "Err"
          /\ db' = db
          /\ localRef' = localRef
          /\ remoteRef' = remoteRef
          /\ call' = IdleCall]_vars

C12_Witness ==
    /\ run.pc = "rejected"
    /\ run.parse = "OidParsing"
    /\ run.result = "Err"
    /\ \E o \in Oids : db[o] # NoBranch

\* The instructions a list of commits stands for: its ids and targets, in order
InstructionsOf(commits) ==
    [i \in 1..Len(commits) |-> [id |-> commits[i].id, action |-> commits[i].note]]

\* C13: parsing the rendered plan of any list of commits yields, in the same
\* order, one instruction per commit with the same id and the same target.
C13_ParseOfRenderRoundTrip ==
    (todo.pc = "parsed" /\ todo.text = commits_to_string(todo.commits))
    => todo.out = InstructionsOf(todo.commits)

\* C14: a line starting with '#' added anywhere in a plan, also between a commit
\* line and its target line, does not change the parsed instructions.
C14_CommentLinesIgnored ==
    todo.pc = "parsed" => todo.out = instruction_from_string(todo.original)

CommitLines(text) == {k \in 1..Len(text) : text[k] # <<>> /\ Head(text[k]) \in HexWords}
TargetLineAt(text, k) == k <= Len(text) /\ text[k] # <<>> /\ Head(text[k]) = Arrow

\* C15: every commit line yields exactly one instruction, and a commit line that
\* no target line follows, the last line of the text included, yields an
\* instruction without a target.
C15_OneInstructionPerCommitLine ==
    todo.pc = "parsed"
    => /\ Len(todo.out) = Cardinality(CommitLines(todo.text))
       /\ \A k \in CommitLines(todo.text) :
            LET n == Cardinality({j \in CommitLines(todo.text) : j <= k})
            IN /\ n <= Len(todo.out)
               /\ todo.out[n].id = Head(todo.text[k])
               /\ ~TargetLineAt(todo.text, k + 1) => todo.out[n].action = NoTarget

\* What a get of the commit returns, and the record it stands for
Get(store, oid) == Git_find_note(store[oid])
RecordOf(store, oid) == unwrap_or_default(Get(store, oid))

\* C16: a merge under OnlyTarget leaves the test list of every commit as it
\* was, and a merge under OnlyTests leaves the push target of every commit.
C16_MergePolicyIsolation ==
    store_op.op = "merge"
    => \A o \in NoteOids :
         /\ store_op.policy = "OnlyTarget"
              => RecordOf(notes, o).tests = RecordOf(store_op.before, o).tests
         /\ store_op.policy = "OnlyTests"
              => RecordOf(notes, o).push = RecordOf(store_op.before, o).push

C16_Witness ==
    /\ store_op.op = "merge"
    /\ store_op.policy = "OnlyTarget"
    /\ RecordOf(store_op.before, store_op.oid) = [push |-> "main", tests |-> <<"t1">>]
    /\ RecordOf(notes, store_op.oid) = [push |-> "feat", tests |-> <<"t1">>]

\* The record the policy asks for: the field it covers taken from the instruction
Merged(policy, record, new_commit) ==
    IF policy = "OnlyTarget"
    THEN [push |-> new_commit.target, tests |-> record.tests]
    ELSE [push |-> record.push, tests |-> new_commit.tests]

\* C17: after the merge of an instruction a get of its commit returns the merged
\* record, or nothing when that record is the default one, in which case no note
\* is left; the merge collects these reads in the order of the instructions.
C17_MergeReplacesAndReturns ==
    store_op.op = "merge"
    => LET n == Len(store_op.done)
           new_commit == store_op.done[n]
           merged == Merged(store_op.policy,
                            RecordOf(store_op.before, store_op.oid), new_commit)
       IN /\ store_op.oid = new_commit.hash
          /\ Get(notes, store_op.oid) = IF merged = DefaultNote THEN None ELSE Some(merged)
          /\ merged = DefaultNote => ~notes[store_op.oid].present
          /\ Len(store_op.out) = n
          /\ \A i \in 1..n : store_op.out[i].id = store_op.done[i].hash
          /\ store_op.out[n].note = Get(notes, store_op.oid)

C17_Witness ==
    /\ store_op.op = "merge"
    /\ Len(store_op.done) = 2
    /\ store_op.done[1].hash # store_op.done[2].hash
    /\ store_op.before[store_op.oid].present
    /\ ~notes[store_op.oid].present
    /\ store_op.out[2].note = None
    /\ store_op.out[1].note # None

\* C18: no commit has a stored record equal to the default record.
C18_NoDefaultRecordStored ==
    \A o \in NoteOids :
        \A k \in 1..Len(notes[o].lines) : notes[o].lines[k] # to_string(DefaultNote)

\* C19: deleting the record of a commit that has none returns Ok and leaves the
\* store as it was, and a second delete changes nothing more.
C19_DeleteIsIdempotent ==
    /\ (store_op.op \in {"delete_note", "db_delete"}
        /\ ~store_op.before[store_op.oid].present)
       => (store_op.ret = "Ok" /\ notes = store_op.before)
    /\ store_op.op = "delete_note" => Git_delete_note(notes, store_op.oid) = notes
    /\ store_op.op = "db_delete"
         => GitDatabase_delete(notes, store_op.oid, store_op.key) = notes

\* The last piece of a blob that is not blank, parsed
LastNonBlank(blob) ==
    LET idx == {k \in 1..Len(blob.lines) : blob.lines[k] # BlankLine}
    IN IF idx = {} THEN None
       ELSE from_str(blob.lines[CHOOSE k \in idx : \A j \in idx : j <= k])

\* C20: a get on a blob of several lines returns the value of its last line
\* that is not blank, whatever blank lines follow it.
C20_GetReadsLastNonBlankLine ==
    store_op.op = "find"
    => store_op.out[1].note = LastNonBlank(notes[store_op.oid])

\* The note an operation was given, as the record kept of the operation
Given(op) == [push |-> op.done[1].target, tests |-> op.done[1].tests]

\* C21: a write replaces the stored value: after a set the get returns the
\* value of that set and the blob holds nothing else; a get returns none for a
\* commit without note and after a delete.
C21_WriteReplaces ==
    /\ store_op.op = "set_note"
         => /\ Get(notes, store_op.oid) = Some(Given(store_op))
            /\ notes[store_op.oid] = Blob(<<to_string(Given(store_op))>>)
    /\ store_op.op = "db_write"
         => GitDatabase_read(notes, store_op.oid, store_op.key) = Some(Given(store_op))
    /\ store_op.op = "delete_note" => Get(notes, store_op.oid) = None
    /\ store_op.op = "db_delete"
         => GitDatabase_read(notes, store_op.oid, store_op.key) = None
    /\ \A o \in NoteOids :
         ~notes[o].present
         => /\ Get(notes, o) = None
            /\ \A key \in DbKeys : GitDatabase_read(notes, o, key) = None

C21_Witness ==
    /\ store_op.op = "set_note"
    /\ store_op.before[store_op.oid] = Blob(<<to_string([push |-> "main", tests |-> <<"t1">>])>>)
    /\ Get(notes, store_op.oid) = Some([push |-> "feat", tests |-> <<>>])

\* The branch of commit o is the target of no other commit of the plan
OnlyDeclaredBy(branches, o) ==
    \A o2 \in PlanDomain(branches) : branches[o2] = branches[o] => o2 = o

\* C22: once the branch of a commit of the plan was updated, and no other commit
\* declares the same branch, the local branch is at that commit, whether it was
\* absent or at another commit before; a run that ends well updated every one.
C22_BranchMovedToCommit ==
    /\ \A o \in run.moved :
         OnlyDeclaredBy(run.branches, o) => localRef[run.branches[o]] = o
    /\ (run.pc = "finished" /\ ~ends_after_save(run.no_push, run.branches))
         => run.moved = PlanDomain(run.branches)

C22_Witness ==
    /\ run.pc = "finished"
    /\ Cardinality(run.moved) = 2
    /\ DistinctTargets(run.branches)
    /\ run.was \notin {NullOid, run.current}
    /\ localRef[run.branches[run.current]] = run.current
    /\ \E o \in run.moved : o # run.current /\ localRef[run.branches[o]] = o

\* C23: when the target branch is the checked-out branch and is already at the
\* commit that carries the target, the update of that branch succeeds and the
\* run goes on to its push.
C23_CheckedOutBranchAlreadyThere ==
    (/\ run.current # NullOid
     /\ run.branches[run.current] = head
     /\ run.was = run.current)
    => /\ run.current \in run.moved
       /\ run.pc \in {"aborted", "panicked", "finished"}
            => run.outcomes[run.current] # "none"

\* A configuration the commands cannot run with
BadConfig(file) ==
    \/ file.user_email = Unset
    \/ file.user_name = Unset
    \/ file.core_editor = Unset /\ file.EDITOR = Unset
    \/ file.notes_rewriteRef # RewriteRef

\* C24: with user.email or user.name missing, with no editor in core.editor nor
\* in EDITOR, or with notes.rewriteRef missing or different from
\* refs/notes/commits, loading the configuration fails and no command starts:
\* no record is written, no branch moved, nothing pushed.
C24_BadConfigFailsFirst ==
    BadConfig(config.file)
    => /\ config.loaded \in {"none", "Err"}
       /\ config.loaded = "Err" => config.error # "none"
       /\ run = IdleRun
       /\ call = IdleCall
       /\ db = NoPlan
       /\ \A b \in Branches : localRef[b] = NullOid /\ remoteRef[b] = NullOid

C24_Witness ==
    /\ config.loaded = "Err"
    /\ config.loader = "config_rs"
    /\ config.file.notes_rewriteRef = "refs/notes/other"
    /\ config.file.user_email # Unset
    /\ config.file.user_name # Unset
    /\ config.file.core_editor = Unset
    /\ config.file.EDITOR # Unset

\* yggit.defaultUpstream, origin when it is not set
DefaultUpstream(file) ==
    IF file.yggit_defaultUpstream = Unset THEN DefaultRemote
    ELSE file.yggit_defaultUpstream

\* C25: a target without origin is pushed to the default remote of the
\* configuration, and a target with an origin to that origin.
C25_TargetOriginOrDefault ==
    call.caller = "run"
    => call.origin = (IF run.origin = NoOrigin THEN DefaultUpstream(config.file)
                      ELSE run.origin)

\* C26: a record that cannot be deserialized does not abort the run: the run is
\* not rejected for it, and at its end the record of every listed commit is the
\* one of the plan.
C26_MetadataErrorSkipsRecord ==
    /\ run.read # "DatabaseError"
    /\ run.pc = "finished" => \A o \in ListedCommits : db[o] = run.branches[o]

\* C27: when the editor cannot be started or ends without success, the command
\* ends with an error and no record is written or deleted, no branch is moved
\* and nothing is pushed.
C27_EditorFailureChangesNothing ==
    [][run'.edit \in EditOutcomes \ {"ok"}
       => /\ run'.pc = "rejected"
          /\ run'.result = "Err"
          /\ db' = db
          /\ localRef' = localRef
          /\ trackRef' = trackRef
          /\ remoteRef' = remoteRef
          /\ call' = IdleCall]_vars

C27_Witness ==
    /\ run.pc = "rejected"
    /\ run.edit = "editor did not correctly end"
    /\ run.result = "Err"
    /\ \E o \in Oids : db[o] # NoBranch

\* The commits of a set, oldest first (a parent has a smaller number)
Ascending(S) ==
    CHOOSE q \in [1..Cardinality(S) -> S] :
        \A i, j \in 1..Cardinality(S) : i < j => q[i] < q[j]

\* The commits between the boundary (excluded) and HEAD (included)
Between(head_oid, boundary) ==
    {c \in History : graph_descendant_or_self(head_oid, c)
                     /\ graph_descendant_of(c, boundary)}

\* C28: when the boundary is HEAD or an ancestor of it, list_commits returns
\* the commits between the boundary (left out) and HEAD, oldest first, none when
\* HEAD is at the boundary, each with its id, its title and its note if any.
C28_ListFromBoundaryOldestFirst ==
    (/\ listing.pc = "listed"
     /\ listing.until # "none"
     /\ listing.refs[listing.until] # NullOid
     /\ graph_descendant_or_self(listing.head_oid, listing.refs[listing.until]))
    => LET expected == Ascending(Between(listing.head_oid,
                                         listing.refs[listing.until]))
       IN /\ listing.ret = "Ok"
          /\ Len(listing.out) = Len(expected)
          /\ \A i \in 1..Len(expected) :
                /\ listing.out[i].id = expected[i]
                /\ listing.impl = "git_rs"
                     => listing.out[i] = find_commit(notes, expected[i])

\* C29: main_branch returns main when it exists, also when master exists too,
\* otherwise master when it exists, and none when neither exists.
C29_MainBeforeMaster ==
    listing.pc = "main_branch"
    => /\ listing.refs["main"] # NullOid => listing.found = "main"
       /\ (listing.refs["main"] = NullOid /\ listing.refs["master"] # NullOid)
            => listing.found = "master"
       /\ (listing.refs["main"] = NullOid /\ listing.refs["master"] = NullOid)
            => (listing.found = "none" /\ listing.ret = "None")

C29_Witness ==
    /\ listing.pc = "main_branch"
    /\ listing.refs["main"] # NullOid
    /\ listing.refs["master"] # NullOid
    /\ listing.refs["main"] # listing.refs["master"]
    /\ listing.found = "main"

\* C30: the cell of the negotiation is written only by the callback, while the
\* push call is in progress, and it is read by the caller only after the push
\* call has returned, when the callback writes it no more.
C30_CellReadAfterPushReturns ==
    [][/\ (call'.cell # call.cell /\ call'.cell # "None")
            => /\ call.pc = "push"
               /\ call'.pc \in {"transfer", "returned"}
               /\ call'.ret = "none"
       /\ (call'.ret # call.ret /\ call'.ret # "none")
            => /\ call.pc = "returned"
               /\ call'.pc = "done"
               /\ call'.cell = call.cell
               /\ call'.ret = classify(call.impl, call.cell, call.push_res)
       /\ call.pc \in {"transfer", "returned", "done"} /\ call'.pc # "idle"
            => call'.cell = call.cell]_vars

C30_Witness ==
    /\ call.pc = "done"
    /\ call.cell \in Accepted
    /\ call.push_res = "ok"
    /\ call.ret = "Ok"
    /\ call.caller = "api"

\* C31: when the transport offers no update to the negotiation (the remote
\* branch is already at the local commit), nothing is transferred and the call
\* returns a not-pushed error for the update that was not needed: it returns
\* neither success nor the error of a failed transport.
C31_NoUpdateIsNotPushed ==
    (/\ call.pc \in {"returned", "done"}
     /\ ~call.offered
     /\ call.cell \in RejectedNoUpdate)
    => /\ call.push_res = "err_callback"
       /\ remoteRef[call.branch] = call.remote_src
       /\ call.pc = "done"
            => IsErr(call.ret) /\ call.ret # "Err_NotPushed_transport"

\* C32: in a push run the records of the whole plan are saved before any local
\* branch is moved, a branch is pushed only after its pointer was moved to the
\* commit that carries it as target, and after a move that failed no push is made.
C32_PhasesInOrder ==
    [][/\ localRef' # localRef
            => /\ run.pc = "loop"
               /\ \A o \in run.listed : db[o] = run.branches[o]
       /\ (call.pc = "idle" /\ call'.pc = "push")
            => /\ run.pc = "moved"
               /\ run.current \in run.moved
               /\ run.branches[run.current] = call'.branch
               /\ localRef[call'.branch] = run.current
               /\ call'.local_dst = run.current
       /\ (run.pc = "loop" /\ run'.pc = "aborted")
            => /\ localRef' = localRef
               /\ call' = IdleCall
               /\ run'.outcomes[run'.current] = "none"
       /\ run.pc = "aborted" => call' = IdleCall]_vars

C32_Witness ==
    /\ run.pc = "aborted"
    /\ run.current \notin run.moved
    /\ run.outcomes[run.current] = "none"
    /\ \E o \in run.moved : run.outcomes[o] = "Ok" /\ localRef[run.branches[o]] = o
    /\ \A o \in run.listed : db[o] = run.branches[o]

\* The list of the commits failed for one of the two reasons of the boundary
ListFailed(r) == r.list \in {"BranchNotFound", "CannotReach"}

\* C33: list_commits fails with BranchNotFound carrying the given name when no
\* local branch has that name, and with CannotReach when the commit of the
\* boundary is not an ancestor of HEAD; push and show then end with the error,
\* no commit listed, the editor not opened and nothing changed.
C33_ListFailureStopsTheCommand ==
    [][/\ (run.pc = "idle" /\ run'.pc # "idle")
            => LET boundary == listing.refs[run'.onto]
               IN /\ boundary = NullOid
                        => run'.list = "BranchNotFound" /\ run'.list_name = run'.onto
                  /\ (/\ boundary # NullOid
                      /\ ~graph_descendant_or_self(listing.head_oid, boundary))
                        => run'.list = "CannotReach"
                  /\ ListFailed(run')
                        => /\ run'.pc = "rejected"
                           /\ run'.result = "Err"
                           /\ run'.listed = {}
                           /\ run'.read = "none"
                           /\ run'.edit = "none"
                           /\ run'.lines = <<>>
       /\ (ListFailed(run) \/ ListFailed(run'))
            => /\ db' = db
               /\ localRef' = localRef
               /\ trackRef' = trackRef
               /\ remoteRef' = remoteRef
               /\ notes' = notes
               /\ call' = IdleCall]_vars

C33_Witness ==
    /\ run.via = "lib"
    /\ run.pc = "rejected"
    /\ run.list = "BranchNotFound"
    /\ run.list_name = "master"
    /\ run.edit = "none"
    /\ \E o \in Oids : db[o] # NoBranch

\* C34: show changes nothing: whatever the boundary, the stored records and the
\* text the editor returns, no record is written or deleted, no local branch is
\* moved and no push call is made.
C34_ShowIsReadOnly ==
    [][run'.via = "show"
       => /\ run'.pc \in {"shown", "rejected"}
          /\ run'.moved = {}
          /\ run'.outcomes = NoOutcomes
          /\ db' = db
          /\ notes' = notes
          /\ localRef' = localRef
          /\ trackRef' = trackRef
          /\ remoteRef' = remoteRef
          /\ call' = IdleCall]_vars

C34_Witness ==
    /\ run.via = "show"
    /\ run.pc = "shown"
    /\ run.result = "Ok"
    /\ \E o \in run.listed :
          /\ db[o] # NoBranch
          /\ todo_branches(run.lines)[o] \notin {NoBranch, db[o]}

\* C35: a push call returns success only if the negotiation recorded an
\* acceptance; when the transport fails before the callback is invoked, or the
\* callback fails without recording a decision, the cell is still empty and the
\* call returns a not-pushed error: it neither succeeds nor panics.
C35_SuccessOnlyAfterAcceptance ==
    call.pc = "done"
    => /\ call.ret = "Ok" => call.cell \in Accepted
       /\ call.cell = "None" => IsErr(call.ret)

\* C36: when two commits of a plan name the same branch, the branch points at
\* the newer of the two, the later one of the list, once both entries were
\* applied, and that commit is the one the remote receives.
C36_LaterCommitWins ==
    \A o1, o2 \in run.moved :
        (run.branches[o1] = run.branches[o2] /\ graph_descendant_of(o2, o1))
        => /\ localRef[run.branches[o2]] = o2
           /\ (run.pc = "finished" /\ run.result = "Ok")
                => remoteRef[run.branches[o2]] = o2

\* C37: every branch a push run moves or pushes is the target of a listed commit
\* whose record the run saved: a target given in the edited text to a commit
\* that is not listed moves no branch and pushes nothing.
C37_OnlyListedTargets ==
    \A o \in Oids :
        (o \in run.moved \/ run.outcomes[o] # "none")
        => /\ o \in run.listed
           /\ db[o] = run.branches[o]

\* The targets of the lines that directly follow a line of the commit in a text
TargetsAfter(lines, o) ==
    {lines[i + 1][3] :
        i \in {j \in 1..(Len(lines) - 1) : /\ lines[j][1] = "commit"
                                          /\ lines[j][2] = o
                                          /\ lines[j + 1][1] = "branch"}}

\* The save step of the run is done
Saved == run.pc \in {"finished", "loop", "moved", "pushing", "aborted", "panicked"}

\* C38: after the save step of push or apply, the stored record of every listed
\* commit is the target line that directly follows the line of the commit in the
\* edited text, and the commit has no record when the text has no such line,
\* also when the line of the commit was removed from the text.
C38_SavedRecordsFollowTheText ==
    Saved
    => \A o \in run.listed :
          /\ TargetsAfter(run.lines, o) = {} => db[o] = NoBranch
          /\ TargetsAfter(run.lines, o) # {} => db[o] \in TargetsAfter(run.lines, o)
          /\ db[o] = run.branches[o]

C38_Witness ==
    /\ run.pc = "finished"
    /\ run.no_push
    /\ \E o \in run.listed :
          /\ db[o] = "feat"
          /\ TargetsAfter(run.lines, o) = {"feat"}
    /\ \E o \in Oids \ run.listed : db[o] = "main"

\* C39: write(oid, k, v) and delete(oid, k) of the note database change only the
\* key k of the commit oid: every other key of that commit and every key of
\* every other commit reads the same before and after, whatever the notes held.
C39_OtherKeysUntouched ==
    store_op.op \in {"db_write", "db_delete"}
    => \A oid \in NoteOids :
          /\ oid # store_op.oid => notes[oid] = store_op.before[oid]
          /\ \A key \in DbKeys :
                (oid # store_op.oid \/ key # store_op.key)
                => GitDatabase_read(notes, oid, key)
                     = GitDatabase_read(store_op.before, oid, key)

C39_Witness ==
    /\ store_op.op = "db_write"
    /\ store_op.key = "branch"
    /\ GitDatabase_read(store_op.before, store_op.oid, "tests") # None
    /\ GitDatabase_read(notes, store_op.oid, "tests")
         = GitDatabase_read(store_op.before, store_op.oid, "tests")
    /\ GitDatabase_read(store_op.before, store_op.oid, "branch") # None
    /\ GitDatabase_read(notes, store_op.oid, "branch")
         # GitDatabase_read(store_op.before, store_op.oid, "branch")
    /\ \E oid \in NoteOids : oid # store_op.oid /\ notes[oid].present

====
